---- MODULE Spec2Model ----
(***************************************************************************)
(* A model of rex/rewrap.py (class ReWrap): the placeholder registry, the  *)
(* placeholder expander, the match dispatcher, the buffer manager and the  *)
(* engine-facing operations.                                               *)
(*                                                                         *)
(* Text is a sequence of one-character strings, so that isidentifier, the  *)
(* group-name formatting f"{placeholder}_{count}" and rsplit('_', 1) are   *)
(* computed character by character.  A pattern is a sequence of tokens     *)
(* (a [[:name:]] reference, a caller-declared named group, a piece of      *)
(* engine-native text, a top-level "|"); the engine (module re) is a small *)
(* backtracking matcher over the expanded token sequence.                  *)
(***************************************************************************)
EXTENDS Naturals, Sequences, FiniteSets, TLC

VARIABLES
    _custom_patterns,  \* self._custom_patterns: placeholder -> list of rules
    buffers,           \* self.buffers: buffer name -> list object (a heap address)
    heap,              \* the list objects: address -> sequence of entries
    _buffer,           \* self._buffer: address of the current buffer, 0 for None
    scopes,            \* the open BUFFER(...) context managers, innermost last
    tee,               \* the iterator finditer returned: pending and yielded matches
    ret,               \* the last call: its arguments, what it raised, what it returned
    calls,             \* the callbacks and hooks the last call invoked, in order
    nOps               \* how many engine-facing calls were made

vars == <<_custom_patterns, buffers, heap, _buffer, scopes, tee, ret, calls, nOps>>

-----------------------------------------------------------------------------
(* Bounds of the model.                                                    *)

MaxRules == 2      \* rules held by the registry, over all placeholders
MaxDepth == 2      \* BUFFER scopes open at once
MaxObjs == 2       \* list objects ever allocated
MaxBufLen == 2     \* entries in one list object (buffer-manager runs)
MaxOps == 1        \* engine-facing calls in one run

-----------------------------------------------------------------------------
(* Text.                                                                   *)

None == "None"

DigitChars == {"0", "1", "2", "3", "4", "5", "6", "7", "8", "9"}

Letters == {"a", "o", "x", "y", "d", "w", "s", "b", "B", "D", "S", "W", "A", "Z",
            "t", "r", "n", "f", "v"}

\* A name check that only refuses the empty name.
isidentifier_nonempty(placeholder) == Len(placeholder) > 0

\* str.isidentifier(): a letter or "_", then letters, digits and "_".
isidentifier(placeholder) ==
    /\ Len(placeholder) > 0
    /\ placeholder[1] \in Letters \cup {"_"}
    /\ \A i \in 2..Len(placeholder) : placeholder[i] \in Letters \cup DigitChars \cup {"_"}

\* ReWrap.reserved_sequences
reserved_sequences ==
    << <<"\\", "d">>, <<"\\", "w">>, <<"\\", "s">>, <<"\\", "b">>, <<"\\", "B">>,
       <<"\\", "D">>, <<"\\", "S">>, <<"\\", "W">>, <<"\\", "A">>, <<"\\", "Z">>,
       <<"\\", "t">>, <<"\\", "r">>, <<"\\", "n">>, <<"\\", "f">>, <<"\\", "v">> >>

Reserved == {reserved_sequences[i] : i \in DOMAIN reserved_sequences}

\* dict helpers: d.get(k, default) and d[k] = v
Get(d, k, default) == IF k \in DOMAIN d THEN d[k] ELSE default

Put(d, k, v) == [x \in (DOMAIN d) \cup {k} |-> IF x = k THEN v ELSE d[x]]

EmptyDict == [x \in {} |-> 0]

-----------------------------------------------------------------------------
(* The engine's sub-pattern language: what module re is asked to compile.  *)

SubDigit == "\\d"
SubDigits == "\\d+"
SubX == "x"
SubNever == "(?!.)"
SubUnclosed == "[unclosed_group"

\* re.compile(pattern) of a sub-pattern: an unclosed character set is an error.
re_compiles(pattern) == pattern # SubUnclosed

\* ReWrap._validate_pattern: TRUE when it returns, FALSE when it raises.
_validate_pattern(pattern) == re_compiles(pattern)

-----------------------------------------------------------------------------
(* Pattern Registry: add_pattern.                                          *)

NoCb == "None"
Callbacks == {NoCb, "cb"}

Rule(pattern, callback) == [pattern |-> pattern, cb |-> callback]

\* self._custom_patterns.setdefault(placeholder, []).append((pattern, callback))
setdefault_append(reg, placeholder, rule) ==
    Put(reg, placeholder, Append(Get(reg, placeholder, <<>>), rule))

\* The loop of add_pattern over the list: validate one, append it, go on.
RECURSIVE register_each(_, _, _, _, _)
register_each(reg, placeholder, pats, i, callback) ==
    IF i > Len(pats) THEN [patterns |-> reg, raised |-> None]
    ELSE IF ~_validate_pattern(pats[i])
         THEN [patterns |-> reg, raised |-> "InvalidPatternError"]
         ELSE register_each(setdefault_append(reg, placeholder, Rule(pats[i], callback)),
                            placeholder, pats, i + 1, callback)

\* add_pattern(placeholder, replacement, callback): the registry it leaves and
\* what it raises.  replacement is [is_list, pats]: a single sub-pattern is
\* is_list = FALSE with one element.
add_pattern_result(reg, placeholder, replacement, callback) ==
    IF ~isidentifier(placeholder)
    THEN [patterns |-> reg, raised |-> "PatternConflictError"]
    ELSE IF replacement.is_list /\ replacement.pats = <<>>
    THEN [patterns |-> reg, raised |-> "InvalidPatternError"]
    ELSE register_each(reg, placeholder, replacement.pats, 1, callback)

RECURSIVE SumLen(_, _)
SumLen(d, keys) ==
    IF keys = {} THEN 0
    ELSE LET k == CHOOSE x \in keys : TRUE
         IN  Len(d[k]) + SumLen(d, keys \ {k})

TotalRules(reg) == SumLen(reg, DOMAIN reg)

NameA == <<"a">>
NameA1 == <<"a", "_", "1">>

PlaceholderArgs == {NameA, NameA1, <<"1", "a">>} \cup Reserved

RegSubs == {SubX, SubUnclosed}

ReplacementArgs ==
    {[is_list |-> FALSE, pats |-> <<p>>] : p \in RegSubs}
    \cup {[is_list |-> TRUE, pats |-> <<>>]}
    \cup {[is_list |-> TRUE, pats |-> <<p, q>>] : p \in RegSubs, q \in RegSubs}

add_pattern ==
    \E placeholder \in PlaceholderArgs, replacement \in ReplacementArgs,
       callback \in Callbacks :
        LET r == add_pattern_result(_custom_patterns, placeholder, replacement, callback)
        IN  /\ TotalRules(r.patterns) <= MaxRules
            /\ _custom_patterns' = r.patterns
            /\ ret' = [op |-> "add_pattern", placeholder |-> placeholder,
                       replacement |-> replacement, callback |-> callback,
                       raised |-> r.raised]
            /\ calls' = <<>>
            /\ UNCHANGED <<buffers, heap, _buffer, scopes, tee, nOps>>

-----------------------------------------------------------------------------
(* Patterns handed to the engine-facing operations, as token sequences.    *)

Ref(name) == [k |-> "ref", name |-> name, sub |-> ""]              \* [[:name:]]
OptRef(name) == [k |-> "optref", name |-> name, sub |-> ""]        \* ([[:name:]])?
Named(name, sub) == [k |-> "named", name |-> name, sub |-> sub]    \* (?P<name>sub)
Text(sub) == [k |-> "text", name |-> <<>>, sub |-> sub]            \* engine-native text
Bar == [k |-> "bar", name |-> <<>>, sub |-> ""]                    \* top-level |

DigitOf == <<"0", "1", "2", "3", "4", "5", "6", "7", "8", "9">>

\* str(count) of the f-string, in decimal
RECURSIVE str(_)
str(n) == IF n < 10 THEN <<DigitOf[n + 1]>>
          ELSE str(n \div 10) \o <<DigitOf[(n % 10) + 1]>>

\* f"{placeholder}_{count}"
group_name(placeholder, count) == placeholder \o <<"_">> \o str(count)

\* "|".join([p[0] for p in patterns]), kept as the list of alternatives
Alternatives(patterns) == [i \in 1..Len(patterns) |-> patterns[i].pattern]

Group(name, alts, opt) == [k |-> "group", name |-> name, alts |-> alts, opt |-> opt]

\* A lookup that takes every name for a registered one.
is_registered_always(reg, placeholder) == TRUE

\* "if placeholder in self._custom_patterns"
is_registered(reg, placeholder) == placeholder \in DOMAIN reg

\* replace_placeholder, called by re.sub on each [[:name:]] from left to right
\* with the closure's placeholder_counts; tokens that are no reference are
\* copied.  Raises re.error at the first placeholder that is not registered.
RECURSIVE expand_from(_, _, _, _, _)
expand_from(reg, pattern, i, placeholder_counts, done) ==
    IF i > Len(pattern) THEN [raised |-> None, items |-> done]
    ELSE LET tok == pattern[i] IN
         IF tok.k \in {"ref", "optref"}
         THEN IF is_registered(reg, tok.name)
              THEN LET patterns == Get(reg, tok.name, <<>>)
                       combined == IF patterns # <<>> THEN Alternatives(patterns)
                                   ELSE <<SubNever>>
                       count == Get(placeholder_counts, tok.name, 0) + 1
                   IN  expand_from(reg, pattern, i + 1,
                                   Put(placeholder_counts, tok.name, count),
                                   Append(done, Group(group_name(tok.name, count),
                                                      combined, tok.k = "optref")))
              ELSE [raised |-> "re.error", items |-> done]
         ELSE IF tok.k = "named"
         THEN expand_from(reg, pattern, i + 1, placeholder_counts,
                          Append(done, Group(tok.name, <<tok.sub>>, FALSE)))
         ELSE IF tok.k = "text"
         THEN expand_from(reg, pattern, i + 1, placeholder_counts,
                          Append(done, [k |-> "text", name |-> <<>>,
                                        alts |-> <<tok.sub>>, opt |-> FALSE]))
         ELSE expand_from(reg, pattern, i + 1, placeholder_counts,
                          Append(done, [k |-> "bar", name |-> <<>>,
                                        alts |-> <<>>, opt |-> FALSE]))

_process_pattern(reg, pattern) == expand_from(reg, pattern, 1, EmptyDict, <<>>)

GroupIdx(items) == {i \in DOMAIN items : items[i].k = "group"}

\* re.compile of the expanded pattern: a group name defined twice is an error
\* ("redefinition of group name"), and so is a text piece that does not compile.
re_compile_ok(items) ==
    /\ \A i \in GroupIdx(items), j \in GroupIdx(items) :
           i # j => items[i].name # items[j].name
    /\ \A i \in DOMAIN items : \A a \in DOMAIN items[i].alts :
           re_compiles(items[i].alts[a])

\* ReWrap._compile
_compile(reg, pattern) ==
    LET processed == _process_pattern(reg, pattern)
    IN  IF processed.raised # None THEN processed
        ELSE IF ~re_compile_ok(processed.items)
             THEN [raised |-> "re.error", items |-> processed.items]
             ELSE processed

-----------------------------------------------------------------------------
(* The engine: a backtracking matcher over the expanded items.             *)

\* A captured value: text, or None for a group that took no part.  "by"
\* names the callback that transformed it.
VStr(s) == [tag |-> "str", s |-> s, by |-> NoCb]
VNone == [tag |-> "none", s |-> <<>>, by |-> NoCb]

RECURSIVE DigitRun(_, _)
DigitRun(s, pos) ==
    IF pos <= Len(s) /\ s[pos] \in DigitChars THEN 1 + DigitRun(s, pos + 1) ELSE 0

\* Where sub-pattern sub can end when it starts at pos, best first.
SubEnds(sub, s, pos) ==
    IF sub = SubDigit
    THEN IF pos <= Len(s) /\ s[pos] \in DigitChars THEN <<pos + 1>> ELSE <<>>
    ELSE IF sub = SubX
    THEN IF pos <= Len(s) /\ s[pos] = "x" THEN <<pos + 1>> ELSE <<>>
    ELSE IF sub = SubDigits
    THEN LET n == DigitRun(s, pos) IN [k \in 1..n |-> pos + n - k + 1]
    ELSE IF sub = SubNever
    THEN IF pos = Len(s) + 1 THEN <<pos>> ELSE <<>>
    ELSE <<>>

RECURSIVE AltEnds(_, _, _, _)
AltEnds(alts, a, s, pos) ==
    IF a > Len(alts) THEN <<>>
    ELSE LET e == SubEnds(alts[a], s, pos)
         IN  [k \in 1..Len(e) |-> [end |-> e[k], took |-> TRUE]]
             \o AltEnds(alts, a + 1, s, pos)

\* The ways one item can match at pos, best first; an optional group that is
\* skipped takes no part.
ItemEnds(it, s, pos) ==
    AltEnds(it.alts, 1, s, pos)
    \o (IF it.opt THEN <<[end |-> pos, took |-> FALSE]>> ELSE <<>>)

RECURSIVE MatchItems(_, _, _, _, _, _)
RECURSIVE MatchEach(_, _, _, _, _, _, _, _)
\* Every way items[i..hi] can match s from pos, best first.
MatchItems(items, i, hi, s, pos, caps) ==
    IF i > hi THEN <<[end |-> pos, caps |-> caps]>>
    ELSE MatchEach(items, i, hi, s, pos, caps, ItemEnds(items[i], s, pos), 1)

MatchEach(items, i, hi, s, pos, caps, ends, e) ==
    IF e > Len(ends) THEN <<>>
    ELSE MatchItems(items, i + 1, hi, s, ends[e].end,
                    IF items[i].k = "group" /\ ends[e].took
                    THEN [caps EXCEPT ![i] = VStr(SubSeq(s, pos, ends[e].end - 1))]
                    ELSE caps)
         \o MatchEach(items, i, hi, s, pos, caps, ends, e + 1)

\* The branches of a top-level alternation, as index ranges, tried in order.
RECURSIVE BranchMatches(_, _, _, _, _)
BranchMatches(items, lo, i, s, pos) ==
    IF i > Len(items)
    THEN MatchItems(items, lo, Len(items), s, pos, [x \in DOMAIN items |-> VNone])
    ELSE IF items[i].k = "bar"
    THEN MatchItems(items, lo, i - 1, s, pos, [x \in DOMAIN items |-> VNone])
         \o BranchMatches(items, i + 1, i + 1, s, pos)
    ELSE BranchMatches(items, lo, i + 1, s, pos)

RECURSIVE FirstAdvancing(_, _, _, _)
FirstAdvancing(results, r, pos, must_advance) ==
    IF r > Len(results) THEN <<>>
    ELSE IF must_advance /\ results[r].end = pos
    THEN FirstAdvancing(results, r + 1, pos, must_advance)
    ELSE <<results[r]>>

\* m.groupdict(): every named group in the order of definition, None for one
\* that took no part in the match.
groupdict(items, caps) ==
    LET idx == GroupIdx(items)
        nth(n) == CHOOSE i \in idx : Cardinality({j \in idx : j < i}) = n - 1
    IN  [n \in 1..Cardinality(idx) |-> [name |-> items[nth(n)].name, value |-> caps[nth(n)]]]

\* The match object: the span (start, end as positions in s, end exclusive),
\* the matched text m.group() and m.groupdict().
MatchObj(items, s, pos, result) ==
    [start |-> pos, end |-> result.end, text |-> SubSeq(s, pos, result.end - 1),
     groupdict |-> groupdict(items, result.caps)]

\* One attempt at pos: a sequence holding the match, or empty.
MatchAt(items, s, pos, must_advance) ==
    LET found == FirstAdvancing(BranchMatches(items, 1, 1, s, pos), 1, pos, must_advance)
    IN  IF found = <<>> THEN <<>> ELSE <<MatchObj(items, s, pos, found[1])>>

\* regex.match(string)
re_match(items, s) == MatchAt(items, s, 1, FALSE)

\* The scan of regex.search: the first position from pos on where the pattern
\* matches; must_advance holds for the first attempt only.
RECURSIVE SearchFrom(_, _, _, _)
SearchFrom(items, s, pos, must_advance) ==
    IF pos > Len(s) + 1 THEN <<>>
    ELSE LET m == MatchAt(items, s, pos, must_advance)
         IN  IF m # <<>> THEN m ELSE SearchFrom(items, s, pos + 1, FALSE)

\* regex.search(string)
re_search(items, s) == SearchFrom(items, s, 1, FALSE)

\* regex.finditer(string): the non-overlapping matches from left to right; an
\* empty match makes the next attempt advance.
RECURSIVE FinditerFrom(_, _, _, _)
FinditerFrom(items, s, pos, must_advance) ==
    LET m == SearchFrom(items, s, pos, must_advance)
    IN  IF m = <<>> THEN <<>>
        ELSE m \o FinditerFrom(items, s, m[1].end, m[1].end = m[1].start)

re_finditer(items, s) == FinditerFrom(items, s, 1, FALSE)

-----------------------------------------------------------------------------
(* Match Dispatcher: _handle_match.                                        *)

RECURSIVE LastUnderscore(_, _)
LastUnderscore(name, i) ==
    IF i = 0 THEN 0 ELSE IF name[i] = "_" THEN i ELSE LastUnderscore(name, i - 1)

\* group_name.rsplit('_', 1)[0]
rsplit_head(name) ==
    LET u == LastUnderscore(name, Len(name))
    IN  IF u = 0 THEN name ELSE SubSeq(name, 1, u - 1)

\* "for pattern, cb in patterns: if cb: ...; break": the first callback found
RECURSIVE first_callback(_, _)
first_callback(patterns, i) ==
    IF i > Len(patterns) THEN NoCb
    ELSE IF patterns[i].cb # NoCb THEN patterns[i].cb
    ELSE first_callback(patterns, i + 1)

Entry(placeholder, value) == [placeholder |-> placeholder, value |-> value]
Call(kind, f, arg) == [kind |-> kind, f |-> f, arg |-> arg]

\* The loop of _handle_match over group_dict.items().  st is [heap, calls],
\* cur the address in self._buffer.
RECURSIVE dispatch_groups(_, _, _, _, _)
dispatch_groups(reg, cur, gd, i, st) ==
    IF i > Len(gd) THEN st
    ELSE LET placeholder == rsplit_head(gd[i].name)
             cb == first_callback(Get(reg, placeholder, <<>>), 1)
             value == IF cb # NoCb THEN [gd[i].value EXCEPT !.by = cb] ELSE gd[i].value
             calls1 == IF cb # NoCb THEN Append(st.calls, Call("cb", cb, gd[i].value))
                       ELSE st.calls
             heap1 == IF cur # 0
                      THEN [st.heap EXCEPT ![cur] = Append(@, Entry(placeholder, value))]
                      ELSE st.heap
         IN  dispatch_groups(reg, cur, gd, i + 1, [heap |-> heap1, calls |-> calls1])

_handle_match(reg, cur, match, callback, st) ==
    LET s1 == dispatch_groups(reg, cur, match.groupdict, 1, st)
    IN  IF callback # None
        THEN [s1 EXCEPT !.calls = Append(@, Call("post", callback, VStr(match.text)))]
        ELSE s1

RECURSIVE handle_each(_, _, _, _, _)
\* "for match in matches: self._handle_match(match, None)"
handle_each(reg, cur, matches, i, st) ==
    IF i > Len(matches) THEN st
    ELSE handle_each(reg, cur, matches, i + 1,
                     _handle_match(reg, cur, matches[i], None, st))

-----------------------------------------------------------------------------
(* Engine-facing operations, as functions of the registry, the current     *)
(* buffer and the state [heap, calls] they thread.                         *)

\* The caller's pre hook: here one that drops the first character.
apply_pre(pre, string) == IF pre = None \/ string = <<>> THEN string ELSE Tail(string)

pre_calls(pre, string, st) ==
    IF pre = None THEN st
    ELSE [st EXCEPT !.calls = Append(@, Call("pre", pre, VStr(string)))]

Outcome(st, raised, matches, out) ==
    [heap |-> st.heap, calls |-> st.calls, raised |-> raised, matches |-> matches,
     out |-> out]

\* ReWrap.search and ReWrap.match differ in the engine call only.
search_or_match(anchored, reg, cur, st, pattern, string, pre, post) ==
    LET st1 == pre_calls(pre, string, st)
        string1 == apply_pre(pre, string)
        regex == _compile(reg, pattern)
    IN  IF regex.raised # None THEN Outcome(st1, regex.raised, <<>>, <<>>)
        ELSE LET m == IF anchored THEN re_match(regex.items, string1)
                      ELSE re_search(regex.items, string1)
             IN  IF m # <<>>
                 THEN Outcome(_handle_match(reg, cur, m[1], post, st1), None, m, <<>>)
                 ELSE Outcome(st1, None, m, <<>>)

search_result(reg, cur, st, pattern, string, pre, post) ==
    search_or_match(FALSE, reg, cur, st, pattern, string, pre, post)

match_result(reg, cur, st, pattern, string, pre, post) ==
    search_or_match(TRUE, reg, cur, st, pattern, string, pre, post)

Texts(matches) == [i \in 1..Len(matches) |-> matches[i].text]

findall_result(reg, cur, st, pattern, string) ==
    LET regex == _compile(reg, pattern)
    IN  IF regex.raised # None THEN Outcome(st, regex.raised, <<>>, <<>>)
        ELSE LET matches == re_finditer(regex.items, string)
             IN  Outcome(handle_each(reg, cur, matches, 1, st), None, matches,
                         Texts(matches))

\* A finditer that leaves dispatch to whoever consumes the iterator.
finditer_result_lazy(reg, cur, st, pattern, string) ==
    LET regex == _compile(reg, pattern)
    IN  IF regex.raised # None THEN Outcome(st, regex.raised, <<>>, <<>>)
        ELSE Outcome(st, None, re_finditer(regex.items, string), <<>>)

\* ReWrap.finditer: tee the engine's iterator, run one copy to its end with
\* dispatch, return the other (matches: what the returned copy will yield).
finditer_result(reg, cur, st, pattern, string) ==
    LET regex == _compile(reg, pattern)
    IN  IF regex.raised # None THEN Outcome(st, regex.raised, <<>>, <<>>)
        ELSE LET matches == re_finditer(regex.items, string)
             IN  Outcome(handle_each(reg, cur, matches, 1, st), None, matches, <<>>)

\* regex.sub(repl, string, count): the text between the matches, each match
\* replaced, for the first count matches (all of them when count is 0).
RECURSIVE Splice(_, _, _, _, _)
Splice(s, matches, i, pos, repls) ==
    IF i > Len(matches) THEN SubSeq(s, pos, Len(s))
    ELSE SubSeq(s, pos, matches[i].start - 1) \o repls[i]
         \o Splice(s, matches, i + 1, matches[i].end, repls)

Limit(matches, count) ==
    IF count = 0 \/ count >= Len(matches) THEN matches ELSE SubSeq(matches, 1, count)

Repl == <<"#">>

sub_result(reg, cur, st, pattern, repl, string, count) ==
    LET regex == _compile(reg, pattern)
    IN  IF regex.raised # None THEN Outcome(st, regex.raised, <<>>, <<>>)
        ELSE LET matches == Limit(re_finditer(regex.items, string), count)
             IN  Outcome(st, None, matches,
                         <<Splice(string, matches, 1, 1,
                                  [i \in 1..Len(matches) |-> repl])>>)

\* The caller's callback of sub_with_callback: here one that brackets the text.
sub_callback(text) == <<"<">> \o text \o <<">">>

RECURSIVE sub_calls(_, _, _, _)
sub_calls(callback, matches, i, calls0) ==
    IF i > Len(matches) THEN calls0
    ELSE sub_calls(callback, matches, i + 1,
                   Append(calls0, Call("subcb", callback, VStr(matches[i].text))))

sub_with_callback_result(reg, cur, st, pattern, string, callback, count) ==
    LET regex == _compile(reg, pattern)
    IN  IF regex.raised # None THEN Outcome(st, regex.raised, <<>>, <<>>)
        ELSE LET matches == Limit(re_finditer(regex.items, string), count)
             IN  Outcome([st EXCEPT !.calls = sub_calls(callback, matches, 1, @)],
                         None, matches,
                         <<Splice(string, matches, 1, 1,
                                  [i \in 1..Len(matches) |-> sub_callback(matches[i].text)])>>)

\* ReWrap.compile
compile_result(reg, cur, st, pattern) ==
    Outcome(st, _compile(reg, pattern).raised, <<>>, <<>>)

-----------------------------------------------------------------------------
(* recursive_search over nested data.  A node is text, a list, a mapping   *)
(* (an ordered sequence of key/value items) or something else (a number).  *)

Str(s) == [t |-> "str", s |-> s, items |-> <<>>]
List(values) == [t |-> "list", s |-> <<>>,
                 items |-> [i \in 1..Len(values) |-> [key |-> <<>>, value |-> values[i]]]]
Dict(items) == [t |-> "dict", s |-> <<>>, items |-> items]
Item(key, value) == [key |-> key, value |-> value]
Other == [t |-> "other", s |-> <<>>, items |-> <<>>]

\* A traversal that searches the keys of a mapping as well.
children_with_keys(node) ==
    IF node.t = "dict"
    THEN [i \in 1..(2 * Len(node.items)) |->
              IF i % 2 = 1 THEN Str(node.items[(i + 1) \div 2].key)
              ELSE node.items[i \div 2].value]
    ELSE [i \in 1..Len(node.items) |-> node.items[i].value]

\* What recursive_search recurses into: "for item in data" of a list,
\* "for key, value in data.items()" of a dict (the value only).
children(node) == [i \in 1..Len(node.items) |-> node.items[i].value]

RECURSIVE recursive_search_result(_, _, _, _, _, _, _)
RECURSIVE recurse_each(_, _, _, _, _, _, _, _, _)
recursive_search_result(reg, cur, st, pattern, data, pre, post) ==
    IF data.t = "str"
    THEN search_result(reg, cur, st, pattern, data.s, pre, post)
    ELSE IF data.t \in {"list", "dict"}
    THEN recurse_each(reg, cur, st, pattern, children(data), 1, pre, post, <<>>)
    ELSE Outcome(st, None, <<>>, <<>>)

\* matches.extend(self.recursive_search(...)) for each child; an exception
\* ends the traversal.
recurse_each(reg, cur, st, pattern, kids, i, pre, post, matches) ==
    IF i > Len(kids) THEN Outcome(st, None, matches, <<>>)
    ELSE LET r == recursive_search_result(reg, cur, st, pattern, kids[i], pre, post)
         IN  IF r.raised # None THEN Outcome(r, r.raised, <<>>, <<>>)
             ELSE recurse_each(reg, cur, r, pattern, kids, i + 1, pre, post,
                               matches \o r.matches)

-----------------------------------------------------------------------------
(* Buffer Manager: add_buffer, BUFFER, get_buffer.                         *)

BufferNames == {"o", "p"}

RECURSIVE SumEntries(_, _)
SumEntries(h, i) == IF i = 0 THEN 0 ELSE Len(h[i]) + SumEntries(h, i - 1)

TotalEntries(h) == SumEntries(h, Len(h))

\* ReWrap.get_buffer
get_buffer(buffer_name) ==
    IF buffer_name \in DOMAIN buffers THEN heap[buffers[buffer_name]] ELSE <<>>

\* self.buffers[buffer_name] = []
add_buffer ==
    \E buffer_name \in BufferNames :
        /\ Len(heap) < MaxObjs
        /\ heap' = Append(heap, <<>>)
        /\ buffers' = Put(buffers, buffer_name, Len(heap) + 1)
        /\ ret' = [op |-> "add_buffer", name |-> buffer_name, raised |-> None]
        /\ calls' = <<>>
        /\ UNCHANGED <<_custom_patterns, _buffer, scopes, tee, nOps>>

\* BUFFER(buffer_name) up to its yield: setdefault, save self._buffer, set it.
\* A frame holds the generator's locals (and base: how long the list was).
BUFFER_enter ==
    \E buffer_name \in BufferNames :
        LET created == buffer_name \notin DOMAIN buffers
            buffer == IF created THEN Len(heap) + 1 ELSE buffers[buffer_name]
        IN  /\ Len(scopes) < MaxDepth
            /\ created => Len(heap) < MaxObjs
            /\ heap' = IF created THEN Append(heap, <<>>) ELSE heap
            /\ buffers' = IF created THEN Put(buffers, buffer_name, buffer) ELSE buffers
            /\ scopes' = Append(scopes, [name |-> buffer_name, buffer |-> buffer,
                                         previous_buffer |-> _buffer,
                                         base |-> Len(heap'[buffer])])
            /\ _buffer' = buffer
            /\ ret' = [op |-> "BUFFER.enter", name |-> buffer_name, raised |-> None]
            /\ calls' = <<>>
            /\ UNCHANGED <<_custom_patterns, tee, nOps>>

\* A scope exit that forgets the buffer that was current before.
restore_none(frame) == 0

\* "finally: self._buffer = previous_buffer"
restore_previous(frame) == frame.previous_buffer

\* The innermost open scope is left, by the end of its body or by an
\* exception propagating out of it; the finally clause runs either way.
BUFFER_exit ==
    \E how \in {"return", "exception"} :
        /\ scopes # <<>>
        /\ LET frame == scopes[Len(scopes)]
           IN  /\ _buffer' = restore_previous(frame)
               /\ scopes' = SubSeq(scopes, 1, Len(scopes) - 1)
               /\ ret' = [op |-> "BUFFER.exit", name |-> frame.name, how |-> how,
                          appended |-> SubSeq(heap[frame.buffer], frame.base + 1,
                                              Len(heap[frame.buffer])),
                          raised |-> IF how = "exception" THEN "Exception" ELSE None]
        /\ calls' = <<>>
        /\ UNCHANGED <<_custom_patterns, buffers, heap, tee, nOps>>

CallerEntry == Entry(<<"t", "e", "s", "t">>, VStr(<<"d", "a", "t", "a">>))

\* The body of an open scope appends to the list its BUFFER(...) yielded.
caller_append ==
    \E i \in DOMAIN scopes :
        /\ TotalEntries(heap) < MaxBufLen
        /\ heap' = [heap EXCEPT ![scopes[i].buffer] = Append(@, CallerEntry)]
        /\ ret' = [op |-> "append", name |-> scopes[i].name, raised |-> None]
        /\ calls' = <<>>
        /\ UNCHANGED <<_custom_patterns, buffers, _buffer, scopes, tee, nOps>>

-----------------------------------------------------------------------------
(* The engine-facing operations as steps.                                  *)

NameY == <<"y">>
NameZ == <<"z">>

PatternArgs ==
    { <<Ref(NameA)>>,
      <<Ref(NameA), Ref(NameA)>>,
      <<Ref(NameA), Ref(NameA1), Ref(NameA)>>,
      <<Ref(NameA), Bar, Ref(NameA1)>>,
      <<OptRef(NameA), Text(SubX)>>,
      <<Named(NameA, SubX), Ref(NameA)>>,
      <<Named(NameY, SubDigit)>>,
      <<Ref(NameZ)>> }

StringArgs == { <<"1", "x", "2">>, <<"1", "2">>, <<>> }

PreHooks == {None, "tail"}
PostHooks == {None, "post"}

\* pre and post hooks given together, or neither
HookPairs == { <<None, None>>, <<"tail", "post">> }

DataArgs ==
    { Str(<<"x", "1">>),
      List(<<Str(<<"x", "1">>), Str(<<"z">>), Str(<<"2">>)>>),
      Dict(<<Item(<<"7">>,
                  List(<<Dict(<<Item(<<"8">>, Str(<<"1">>))>>),
                         Dict(<<Item(<<"9">>, Str(<<"x", "2">>))>>)>>))>>),
      List(<<>>),
      Dict(<<Item(<<"5">>, Other)>>) }

EngineRet(op, pattern, string, data, pre, post, count, r) ==
    [op |-> op, pattern |-> pattern, string |-> string, data |-> data, pre |-> pre,
     post |-> post, count |-> count, raised |-> r.raised, matches |-> r.matches,
     out |-> r.out]

st0 == [heap |-> heap, calls |-> <<>>]

\* What every engine-facing step does with the outcome r of its operation.
Returns(r, retv) ==
    /\ heap' = r.heap
    /\ calls' = r.calls
    /\ ret' = retv
    /\ UNCHANGED <<_custom_patterns, buffers, _buffer, scopes>>

search_call(pattern, string, pre, post) ==
    Returns(search_result(_custom_patterns, _buffer, st0, pattern, string, pre, post),
            EngineRet("search", pattern, string, Other, pre, post, 0,
                      search_result(_custom_patterns, _buffer, st0, pattern, string,
                                    pre, post)))

search ==
    /\ nOps < MaxOps
    /\ \E pattern \in PatternArgs, string \in StringArgs, pre \in PreHooks,
       post \in PostHooks :
        /\ search_call(pattern, string, pre, post)
        /\ nOps' = nOps + 1
        /\ UNCHANGED tee

match ==
    /\ nOps < MaxOps
    /\ \E pattern \in PatternArgs, string \in StringArgs, hooks \in HookPairs :
        LET r == match_result(_custom_patterns, _buffer, st0, pattern, string,
                              hooks[1], hooks[2])
        IN  /\ Returns(r, EngineRet("match", pattern, string, Other, hooks[1],
                                    hooks[2], 0, r))
            /\ nOps' = nOps + 1
            /\ UNCHANGED tee

findall ==
    /\ nOps < MaxOps
    /\ \E pattern \in PatternArgs, string \in StringArgs :
        LET r == findall_result(_custom_patterns, _buffer, st0, pattern, string)
        IN  /\ Returns(r, EngineRet("findall", pattern, string, Other, None, None, 0, r))
            /\ nOps' = nOps + 1
            /\ UNCHANGED tee

finditer ==
    /\ nOps < MaxOps
    /\ \E pattern \in PatternArgs, string \in StringArgs :
        LET r == finditer_result(_custom_patterns, _buffer, st0, pattern, string)
        IN  /\ Returns(r, EngineRet("finditer", pattern, string, Other, None, None, 0, r))
            /\ tee' = [pending |-> r.matches, yielded |-> <<>>]
            /\ nOps' = nOps + 1

\* next() on the iterator finditer returned: the tee hands out the match it
\* buffered.
next ==
    /\ tee.pending # <<>>
    /\ tee' = [pending |-> Tail(tee.pending),
               yielded |-> Append(tee.yielded, Head(tee.pending))]
    /\ ret' = [op |-> "next", raised |-> None, matches |-> <<Head(tee.pending)>>]
    /\ calls' = <<>>
    /\ UNCHANGED <<_custom_patterns, buffers, heap, _buffer, scopes, nOps>>

sub ==
    /\ nOps < MaxOps
    /\ \E pattern \in PatternArgs, string \in StringArgs, count \in {0, 1} :
        LET r == sub_result(_custom_patterns, _buffer, st0, pattern, Repl, string, count)
        IN  /\ Returns(r, EngineRet("sub", pattern, string, Other, None, None, count, r))
            /\ nOps' = nOps + 1
            /\ UNCHANGED tee

sub_with_callback ==
    /\ nOps < MaxOps
    /\ \E pattern \in PatternArgs, string \in StringArgs, count \in {0} :
        LET r == sub_with_callback_result(_custom_patterns, _buffer, st0, pattern,
                                          string, "subcb", count)
        IN  /\ Returns(r, EngineRet("sub_with_callback", pattern, string, Other, None,
                                    None, count, r))
            /\ nOps' = nOps + 1
            /\ UNCHANGED tee

compile ==
    /\ nOps < MaxOps
    /\ \E pattern \in PatternArgs :
        LET r == compile_result(_custom_patterns, _buffer, st0, pattern)
        IN  /\ Returns(r, EngineRet("compile", pattern, <<>>, Other, None, None, 0, r))
            /\ nOps' = nOps + 1
            /\ UNCHANGED tee

recursive_search ==
    /\ nOps < MaxOps
    /\ \E pattern \in PatternArgs, data \in DataArgs, hooks \in HookPairs :
        LET r == recursive_search_result(_custom_patterns, _buffer, st0, pattern, data,
                                         hooks[1], hooks[2])
        IN  /\ Returns(r, EngineRet("recursive_search", pattern, <<>>, data, hooks[1],
                                    hooks[2], 0, r))
            /\ nOps' = nOps + 1
            /\ UNCHANGED tee

\* A search made inside buffer scopes: one placeholder reference, no hooks.
search_buffered ==
    \E string \in { <<"1">>, <<"x">> } :
        /\ TotalEntries(heap) < MaxBufLen
        /\ search_call(<<Ref(NameA)>>, string, None, None)
        /\ UNCHANGED <<tee, nOps>>

-----------------------------------------------------------------------------
(* The state after ReWrap(), and the specifications.                       *)

NoTee == [pending |-> <<>>, yielded |-> <<>>]
NoRet == [op |-> "init", raised |-> None]

Init ==
    /\ _custom_patterns = EmptyDict
    /\ buffers = EmptyDict
    /\ heap = <<>>
    /\ _buffer = 0
    /\ scopes = <<>>
    /\ tee = NoTee
    /\ ret = NoRet
    /\ calls = <<>>
    /\ nOps = 0

\* The registry: add_pattern from the empty registry.
NextReg == add_pattern

SpecReg == Init /\ [][NextReg]_vars

\* After add_pattern('a', r'\d+').
RegDigits == Put(EmptyDict, NameA, <<Rule(SubDigits, NoCb)>>)

\* After add_pattern('a', r'\d', cb); add_pattern('a_1', 'x').
RegCallback ==
    Put(Put(EmptyDict, NameA, <<Rule(SubDigit, "cb")>>), NameA1, <<Rule(SubX, NoCb)>>)

\* After add_pattern('a', r'\d+'); add_pattern('a', 'x', cb).
RegTwoRules == Put(EmptyDict, NameA, <<Rule(SubDigits, NoCb), Rule(SubX, "cb")>>)

\* The buffer manager: scopes, add_buffer, appends and searches, with one
\* placeholder registered.
InitBuf ==
    /\ _custom_patterns = RegDigits
    /\ buffers = EmptyDict
    /\ heap = <<>>
    /\ _buffer = 0
    /\ scopes = <<>>
    /\ tee = NoTee
    /\ ret = NoRet
    /\ calls = <<>>
    /\ nOps = 0

NextBuf ==
    \/ add_buffer
    \/ BUFFER_enter
    \/ BUFFER_exit
    \/ caller_append
    \/ search_buffered

SpecBuf == InitBuf /\ [][NextBuf]_vars

\* The engine-facing operations: a registry that add_pattern built, and
\* either no buffer at all or, inside "with rw.BUFFER('o')", buffer o current
\* and a buffer p holding one entry.
InitMatch ==
    /\ \/ /\ _custom_patterns = RegCallback
          /\ buffers = EmptyDict
          /\ heap = <<>>
          /\ _buffer = 0
          /\ scopes = <<>>
       \/ /\ _custom_patterns \in {RegCallback, RegTwoRules}
          /\ buffers = Put(Put(EmptyDict, "o", 1), "p", 2)
          /\ heap = << <<>>, <<CallerEntry>> >>
          /\ _buffer = 1
          /\ scopes = <<[name |-> "o", buffer |-> 1, previous_buffer |-> 0, base |-> 0]>>
    /\ tee = NoTee
    /\ ret = NoRet
    /\ calls = <<>>
    /\ nOps = 0

NextMatch ==
    \/ search
    \/ match
    \/ findall
    \/ finditer
    \/ next
    \/ sub
    \/ sub_with_callback
    \/ compile
    \/ recursive_search

SpecMatch == InitMatch /\ [][NextMatch]_vars

-----------------------------------------------------------------------------
(* Properties of the registry (SpecReg).                                   *)

HasInvalid(pats) == \E i \in DOMAIN pats : ~re_compiles(pats[i])

\* C1: a call add_pattern(name, subpatterns, callback) with a valid name in
\* which some sub-pattern does not compile raises InvalidPatternError and
\* leaves the rule list of name exactly as it was before the call.
C1_InvalidSubpatternRegistersNothing ==
    [][ (/\ ret'.op = "add_pattern"
         /\ isidentifier(ret'.placeholder)
         /\ HasInvalid(ret'.replacement.pats))
        => (/\ ret'.raised = "InvalidPatternError"
            /\ Get(_custom_patterns', ret'.placeholder, <<>>)
               = Get(_custom_patterns, ret'.placeholder, <<>>)) ]_vars

\* C2: add_pattern with a reserved built-in escape token as the name raises
\* PatternConflictError whatever the sub-patterns and the callback are, and
\* the registry is unchanged: no placeholder created, no rule added.
C2_ReservedNameRejected ==
    [][ (ret'.op = "add_pattern" /\ ret'.placeholder \in Reserved)
        => (/\ ret'.raised = "PatternConflictError"
            /\ _custom_patterns' = _custom_patterns) ]_vars

\* A reserved name was just refused, with sub-patterns that all compile, on a
\* registry that holds rules.
C2_Witness ==
    /\ ret.op = "add_pattern"
    /\ ret.placeholder \in Reserved
    /\ ~HasInvalid(ret.replacement.pats)
    /\ ret.replacement.pats # <<>>
    /\ ret.raised = "PatternConflictError"
    /\ TotalRules(_custom_patterns) > 0

-----------------------------------------------------------------------------
(* Properties of the buffer manager (SpecBuf).                             *)

\* The list the innermost open scope yielded, 0 when no scope is open.
Innermost(sc) == IF sc = <<>> THEN 0 ELSE sc[Len(sc)].buffer

\* C3: after every step of properly nested scope entries and exits (normal
\* or by exception, a name possibly nested in itself) the current buffer is
\* the one of the innermost open scope, or None when no scope is open; and
\* a search that dispatches appends to that buffer and changes no other list.
C3_StackDiscipline ==
    [][ /\ _buffer' = Innermost(scopes')
        /\ ret'.op = "search"
           => /\ \A a \in DOMAIN heap : a # Innermost(scopes) => heap'[a] = heap[a]
              /\ (ret'.matches # <<>> /\ scopes # <<>>)
                 => Len(heap'[Innermost(scopes)]) = Len(heap[Innermost(scopes)]) + 1 ]_vars

\* An exception has just left a scope nested in a scope of the same name,
\* entries were appended inside it, and the outer scope's buffer is current.
C3_Witness ==
    /\ ret.op = "BUFFER.exit"
    /\ ret.how = "exception"
    /\ ret.appended # <<>>
    /\ scopes # <<>>
    /\ scopes[Len(scopes)].name = ret.name
    /\ _buffer = scopes[Len(scopes)].buffer

\* a occurs in b as a run of consecutive elements
IsSegment(a, b) ==
    \E off \in 0..(Len(b) - Len(a)) : SubSeq(b, off + 1, off + Len(a)) = a

\* What was appended, since the scope was entered, to the list it yielded.
AppendedIn(frame) ==
    SubSeq(heap[frame.buffer], frame.base + 1, Len(heap[frame.buffer]))

\* C9: the entries appended to the buffer a BUFFER(name) scope made current
\* are returned by get_buffer(name), in append order, while the scope is open
\* and when it has just been left, whatever add_buffer, BUFFER and matching
\* calls were made while it was open.
C9_ScopeEntriesReadableByName ==
    /\ \A i \in DOMAIN scopes : IsSegment(AppendedIn(scopes[i]), get_buffer(scopes[i].name))
    /\ ret.op = "BUFFER.exit" => IsSegment(ret.appended, get_buffer(ret.name))

-----------------------------------------------------------------------------
(* Properties of the engine-facing operations (SpecMatch).                 *)

IsRef(tok) == tok.k \in {"ref", "optref"}

NoRefs(pattern) == \A i \in DOMAIN pattern : ~IsRef(pattern[i])

NoNamed(pattern) == \A i \in DOMAIN pattern : pattern[i].k # "named"

HasUndefined(pattern, reg) ==
    \E i \in DOMAIN pattern : IsRef(pattern[i]) /\ pattern[i].name \notin DOMAIN reg

\* The entries a step appended to the list at address cur.
Appended(h0, h1, cur) == SubSeq(h1[cur], Len(h0[cur]) + 1, Len(h1[cur]))

EntryTexts(entries) == [i \in 1..Len(entries) |-> entries[i].value.s]

RECURSIVE FlatGroupTexts(_, _)
\* The captured texts of all named groups of the matches, match by match.
FlatGroupTexts(matches, i) ==
    IF i > Len(matches) THEN <<>>
    ELSE [g \in 1..Len(matches[i].groupdict) |-> matches[i].groupdict[g].value.s]
         \o FlatGroupTexts(matches, i + 1)

\* The value match m captured under group name n.
Captured(m, n) ==
    LET g == CHOOSE x \in DOMAIN m.groupdict : m.groupdict[x].name = n
    IN  m.groupdict[g].value

RECURSIVE RefTexts(_, _, _, _, _)
\* The texts captured by the groups of the references to placeholder p, from
\* left to right.
RefTexts(pattern, items, m, p, i) ==
    IF i > Len(pattern) THEN <<>>
    ELSE (IF IsRef(pattern[i]) /\ pattern[i].name = p
          THEN <<Captured(m, items[i].name).s>> ELSE <<>>)
         \o RefTexts(pattern, items, m, p, i + 1)

RECURSIVE TextsFor(_, _, _)
\* The texts of the entries attributed to placeholder p, in buffer order.
TextsFor(entries, p, i) ==
    IF i > Len(entries) THEN <<>>
    ELSE (IF entries[i].placeholder = p THEN <<entries[i].value.s>> ELSE <<>>)
         \o TextsFor(entries, p, i + 1)

\* C4: when a pattern references a registered placeholder N times and a
\* search or match succeeds with all N groups capturing non-empty text, the N
\* group names are pairwise distinct and exactly N entries for that
\* placeholder are appended to the current buffer, holding the N captures
\* from left to right.
C4_OneEntryPerReference ==
    [][ (/\ ret'.op \in {"search", "match"}
         /\ ret'.raised = None
         /\ ret'.matches # <<>>
         /\ _buffer # 0)
        => LET pattern == ret'.pattern
               items == _process_pattern(_custom_patterns, pattern).items
               m == ret'.matches[1]
           IN  \A p \in DOMAIN _custom_patterns :
                   LET refs == {i \in DOMAIN pattern :
                                    IsRef(pattern[i]) /\ pattern[i].name = p}
                   IN  (/\ refs # {}
                        /\ \A i \in refs : Captured(m, items[i].name).s # <<>>)
                       => /\ \A i \in refs, j \in refs :
                                 i # j => items[i].name # items[j].name
                          /\ TextsFor(Appended(heap, heap', _buffer), p, 1)
                             = RefTexts(pattern, items, m, p, 1) ]_vars

DispatchOps == {"search", "match", "findall", "finditer"}

NoCallbackRan(cs) == \A i \in DOMAIN cs : cs[i].kind # "cb"

\* C5: when the pattern given to search, match, findall or finditer holds no
\* placeholder token, a successful match invokes no registered callback and
\* leaves every buffer unchanged, whatever named groups the caller declared.
C5_NoDispatchWithoutPlaceholder ==
    [][ (/\ ret'.op \in DispatchOps
         /\ NoRefs(ret'.pattern)
         /\ ret'.matches # <<>>)
        => (heap' = heap /\ NoCallbackRan(calls')) ]_vars

\* C10: in a pattern whose named groups all come from placeholders, a group
\* that took no part in the match causes no callback call and no buffer
\* entry: every callback argument and every appended value was captured.
C10_OnlyParticipatingGroups ==
    [][ (/\ ret'.op \in DispatchOps \cup {"recursive_search"}
         /\ NoNamed(ret'.pattern)
         /\ ret'.raised = None)
        => /\ \A i \in DOMAIN calls' : calls'[i].kind = "cb" => calls'[i].arg.tag # "none"
           /\ _buffer # 0
              => \A i \in DOMAIN Appended(heap, heap', _buffer) :
                     Appended(heap, heap', _buffer)[i].value.tag # "none" ]_vars

\* C6: finditer has dispatched every match, once and in the engine's order,
\* by the time it returns: the entries are in the current buffer before the
\* returned iterator is touched; next() on that iterator dispatches nothing
\* and yields the same matches in the same order.
C6_FinditerDispatchesEagerly ==
    [][ /\ (ret'.op = "finditer" /\ ret'.raised = None)
           => /\ ret'.matches
                 = re_finditer(_compile(_custom_patterns, ret'.pattern).items, ret'.string)
              /\ tee' = [pending |-> ret'.matches, yielded |-> <<>>]
              /\ _buffer # 0
                 => EntryTexts(Appended(heap, heap', _buffer))
                    = FlatGroupTexts(ret'.matches, 1)
        /\ ret'.op = "next"
           => /\ heap' = heap
              /\ calls' = <<>>
              /\ tee'.yielded \o tee'.pending = tee.yielded \o tee.pending
              /\ Len(tee'.yielded) = Len(tee.yielded) + 1
              /\ ret'.matches = <<tee'.yielded[Len(tee'.yielded)]>> ]_vars

\* The caller took one match from the iterator and left another in it, and
\* the current buffer already holds the entries of both.
C6_Witness ==
    /\ ret.op = "next"
    /\ tee.yielded # <<>>
    /\ tee.pending # <<>>
    /\ _buffer # 0
    /\ Len(heap[_buffer]) >= 2
    /\ heap[_buffer][1].value.s # heap[_buffer][2].value.s

RECURSIVE Leaves(_)
RECURSIVE LeavesOf(_, _)
\* The text leaves of nested data in traversal order: list elements in list
\* order, mapping values in iteration order, keys left out.
Leaves(node) ==
    IF node.t = "str" THEN <<node.s>>
    ELSE IF node.t \in {"list", "dict"} THEN LeavesOf(node.items, 1)
    ELSE <<>>

LeavesOf(items, i) ==
    IF i > Len(items) THEN <<>>
    ELSE Leaves(items[i].value) \o LeavesOf(items, i + 1)

RECURSIVE LeafMatches(_, _, _, _)
\* The match of search on each leaf where it succeeds, leaf by leaf.
LeafMatches(items, leaves, pre, i) ==
    IF i > Len(leaves) THEN <<>>
    ELSE re_search(items, apply_pre(pre, leaves[i]))
         \o LeafMatches(items, leaves, pre, i + 1)

\* C7: recursive_search over data nested from text, lists and mappings
\* returns the match of search on every text leaf where it succeeds, in
\* traversal order, never searching a key; the entries it dispatches are
\* appended to the current buffer in that same order.
C7_RecursiveSearchTraversal ==
    [][ (ret'.op = "recursive_search" /\ ret'.raised = None)
        => LET expected ==
                   LeafMatches(_process_pattern(_custom_patterns, ret'.pattern).items,
                               Leaves(ret'.data), ret'.pre, 1)
           IN  /\ ret'.matches = expected
               /\ _buffer # 0
                  => EntryTexts(Appended(heap, heap', _buffer))
                     = FlatGroupTexts(expected, 1) ]_vars

\* A mapping whose keys would match was searched: two leaves matched, in
\* order, and both captures are in the current buffer.
C7_Witness ==
    /\ ret.op = "recursive_search"
    /\ ret.data.t = "dict"
    /\ ret.raised = None
    /\ Len(ret.matches) = 2
    /\ _buffer # 0
    /\ Len(heap[_buffer]) >= 2
    /\ ret.matches[1].text # ret.matches[2].text

EngineOps ==
    {"compile", "search", "match", "findall", "finditer", "sub", "sub_with_callback",
     "recursive_search"}

\* No registered callback, post hook or substitution callback ran.
NothingDispatched(cs) == \A i \in DOMAIN cs : cs[i].kind = "pre"

\* C8 as stated: every engine-facing operation, on every input, fails with a
\* pattern-compilation error when the pattern references a placeholder that
\* is not registered, with no callback run and no buffer changed.
C8_UndefinedAlwaysFails ==
    [][ (ret'.op \in EngineOps /\ HasUndefined(ret'.pattern, _custom_patterns))
        => (/\ ret'.raised = "re.error"
            /\ heap' = heap
            /\ NothingDispatched(calls')) ]_vars

\* C8 amended: compile, search, match, findall, finditer, sub and
\* sub_with_callback fail so on every input, and recursive_search does when
\* the data holds a text leaf; over data with no text leaf recursive_search
\* never compiles the pattern and returns the empty list.  In every case no
\* registered callback or post hook runs and no buffer changes.
C8_UndefinedFailsWhenCompiled ==
    [][ (ret'.op \in EngineOps /\ HasUndefined(ret'.pattern, _custom_patterns))
        => /\ heap' = heap
           /\ NothingDispatched(calls')
           /\ IF ret'.op = "recursive_search" /\ Leaves(ret'.data) = <<>>
              THEN ret'.raised = None /\ ret'.matches = <<>>
              ELSE ret'.raised = "re.error" ]_vars

\* recursive_search failed on a pattern whose first reference is registered
\* and whose second is not, with a buffer current.
C8_Witness ==
    /\ ret.op = "recursive_search"
    /\ ret.raised = "re.error"
    /\ Len(ret.pattern) = 3
    /\ HasUndefined(ret.pattern, _custom_patterns)
    /\ Leaves(ret.data) # <<>>
    /\ _buffer # 0

====
